---- MODULE Spec2Model ----
\* Model of the soft-delete / protected-path subsystem of server.py (Filo):
\* the filesystem the server operates on, and its request handlers.
\*
\* Strings are sequences of one-character strings, so that path parsing,
\* item_names.split(','), Path.stem / Path.suffix and strftime are computed
\* as the code computes them.  A filesystem is a function from canonical
\* absolute paths (sequences of names) to nodes.
EXTENDS Integers, Sequences, FiniteSets, TLC

\* ---------------------------------------------------------------- bounds
\* Number of requests in a run.
MaxOps == 2
\* The wall clock advances at most this many seconds during a run.
MaxClock == 1
\* Symlinks followed while resolving one path (the kernel's limit is 40).
MaxLinks == 4
\* Deepest directory nesting copytree descends into.
MaxDepth == 6

\* --------------------------------------------------------------- strings
SLASH == "/"
DOT == <<".">>
DOTDOT == <<".", ".">>
EMPTY == <<>>

\* str.rfind(ch): the last index (1-based) of ch in s, 0 when absent.
RFind(s, ch) ==
    LET I == {i \in 1..Len(s) : s[i] = ch}
    IN  IF I = {} THEN 0 ELSE CHOOSE i \in I : \A j \in I : j <= i

\* str.find(ch): the first index (1-based) of ch in s, 0 when absent.
Find(s, ch) ==
    LET I == {i \in 1..Len(s) : s[i] = ch}
    IN  IF I = {} THEN 0 ELSE CHOOSE i \in I : \A j \in I : i <= j

\* str.split(sep): the pieces of s between occurrences of sep; never empty.
RECURSIVE Split(_, _)
Split(s, sep) ==
    LET i == Find(s, sep)
    IN  IF i = 0 THEN <<s>>
        ELSE <<SubSeq(s, 1, i - 1)>> \o Split(SubSeq(s, i + 1, Len(s)), sep)

\* str.lstrip(ch)
RECURSIVE LStrip(_, _)
LStrip(s, ch) ==
    IF s # <<>> /\ Head(s) = ch THEN LStrip(Tail(s), ch) ELSE s

\* The characters the requests of the model percent-encode.
PercentCodes ==
    [c \in {<<"2", "F">>, <<"2", "E">>, <<"2", "C">>} |->
        IF c = <<"2", "F">> THEN "/" ELSE IF c = <<"2", "E">> THEN "." ELSE ","]

\* urllib.parse.unquote: %XX becomes the character it encodes.
RECURSIVE unquote(_)
unquote(s) ==
    LET i == Find(s, "%")
    IN  IF i = 0 THEN s
        ELSE IF i + 2 <= Len(s) /\ SubSeq(s, i + 1, i + 2) \in DOMAIN PercentCodes
        THEN SubSeq(s, 1, i - 1) \o <<PercentCodes[SubSeq(s, i + 1, i + 2)]>>
                \o unquote(SubSeq(s, i + 3, Len(s)))
        ELSE SubSeq(s, 1, i) \o unquote(SubSeq(s, i + 1, Len(s)))

\* ----------------------------------------------------------------- paths
\* pathlib's parsing of a string: split on "/", drop empty and "." parts.
\* Exactly two leading slashes are the root POSIX lets an implementation
\* treat in its own way, which pathlib and os.path keep as "//": a path
\* under it starts with the component EMPTY.
PathParts(s) ==
    (IF /\ Len(s) >= 2 /\ s[1] = SLASH /\ s[2] = SLASH
        /\ (Len(s) = 2 \/ s[3] # SLASH)
     THEN <<EMPTY>> ELSE <<>>)
        \o SelectSeq(Split(s, SLASH), LAMBDA c : c # EMPTY /\ c # DOT)

\* Path(base) / s for an absolute base given by its parts: an absolute s
\* replaces the base.
JoinPath(base, s) ==
    IF s # <<>> /\ Head(s) = SLASH THEN PathParts(s) ELSE base \o PathParts(s)

RECURSIVE Unparse(_)
\* str(Path) of an absolute path.
Unparse(p) ==
    IF p = <<>> THEN <<SLASH>>
    ELSE IF p = <<EMPTY>> THEN <<SLASH, SLASH>>
    ELSE IF Len(p) = 1 THEN <<SLASH>> \o p[1]
    ELSE IF Len(p) = 2 /\ p[1] = EMPTY THEN <<SLASH, SLASH>> \o p[2]
    ELSE Unparse(SubSeq(p, 1, Len(p) - 1)) \o <<SLASH>> \o p[Len(p)]

Front(p) == SubSeq(p, 1, Len(p) - 1)
Last(p) == p[Len(p)]

\* The path is a root, "/" or "//".
IsRoot(p) == p = <<>> \/ p = <<EMPTY>>

\* PurePath.parent: a root is its own parent.
Parent(p) == IF IsRoot(p) THEN p ELSE Front(p)

\* PurePath.name: the final component, "" for a root.
PathName(p) == IF IsRoot(p) THEN EMPTY ELSE Last(p)

\* PurePath.suffix: from the last dot, unless the dot leads or ends the name.
PathSuffix(p) ==
    LET name == PathName(p)
        i == RFind(name, ".")
    IN  IF 1 < i /\ i < Len(name) THEN SubSeq(name, i, Len(name)) ELSE EMPTY

\* PurePath.stem: the name without its suffix.
PathStem(p) ==
    LET name == PathName(p)
        i == RFind(name, ".")
    IN  IF 1 < i /\ i < Len(name) THEN SubSeq(name, 1, i - 1) ELSE name

IsPrefix(a, b) == Len(a) <= Len(b) /\ SubSeq(b, 1, Len(a)) = a
IsProperPrefix(a, b) == Len(a) < Len(b) /\ SubSeq(b, 1, Len(a)) = a

\* Path.parents of an absolute path: its proper prefixes.
Parents(p) == {SubSeq(p, 1, n) : n \in 0..(Len(p) - 1)}

\* ----------------------------------------------------------------- clock
Digit(n) == <<"0", "1", "2", "3", "4", "5", "6", "7", "8", "9">>[n + 1]
TwoDigits(n) == <<Digit(n \div 10), Digit(n % 10)>>

\* datetime.now().strftime("%Y%m%d%H%M%S") at t seconds past midnight of
\* the day the run happens on.
Strftime(t) ==
    <<"2", "0", "2", "6", "0", "1", "0", "1">>
        \o TwoDigits((t \div 3600) % 24) \o TwoDigits((t \div 60) % 60) \o TwoDigits(t % 60)

\* ------------------------------------------------------------ filesystem
\* A filesystem f maps each existing canonical path to its node.  A file's
\* data is its content; a directory's data identifies the directory (0 for
\* one the server created); a symlink holds an absolute target.  A file
\* that is a zip archive has the data ZIP and its members in entries.
NONE == << <<SLASH>> >>
\* What a walk yields when it must look up a name longer than the 255
\* characters a directory entry can have (ENAMETOOLONG).
TOOLONG == << <<SLASH, SLASH>> >>
ROOT == <<>>

DirNode(id) == [kind |-> "dir", data |-> id, target |-> ROOT, entries |-> <<>>]
FileNode(c) == [kind |-> "file", data |-> c, target |-> ROOT, entries |-> <<>>]
LinkNode(t) == [kind |-> "link", data |-> 0, target |-> t, entries |-> <<>>]

IsDirAt(f, p) == p \in DOMAIN f /\ f[p].kind = "dir"
Children(f, p) == {q \in DOMAIN f : Len(q) = Len(p) + 1 /\ IsPrefix(p, q)}
Subtree(f, p) == {q \in DOMAIN f : IsPrefix(p, q)}

\* The kernel's path walk from the canonical directory cur along rest:
\* the canonical path of the entry named, whose final component may be
\* missing; NONE when a component before it is missing, is no directory,
\* or too many symlinks are met; TOOLONG when a name to look up is longer
\* than a directory entry can be.  The final symlink is followed iff follow.
RECURSIVE Namei(_, _, _, _, _)
Namei(f, cur, rest, follow, fuel) ==
    IF rest = <<>> THEN cur
    ELSE IF ~IsDirAt(f, cur) THEN NONE
    ELSE LET c == Head(rest)
             r == Tail(rest)
             nxt == Append(cur, c)
         IN  IF c = EMPTY THEN Namei(f, cur, r, follow, fuel)
             ELSE IF c = DOTDOT
             THEN Namei(f, IF cur = ROOT THEN ROOT ELSE Front(cur), r, follow, fuel)
             ELSE IF Len(c) > 255 THEN TOOLONG
             ELSE IF nxt \in DOMAIN f /\ f[nxt].kind = "link" /\ (r # <<>> \/ follow)
             THEN IF fuel = 0 THEN NONE
                  ELSE Namei(f, ROOT, f[nxt].target \o r, follow, fuel - 1)
             ELSE IF r = <<>> THEN nxt
             ELSE Namei(f, nxt, r, follow, fuel)

\* os.stat / os.lstat: the canonical path of the existing entry, or NONE.
Stat(f, p) ==
    LET e == Namei(f, ROOT, p, TRUE, MaxLinks)
    IN  IF e \in DOMAIN f THEN e ELSE NONE
LStat(f, p) ==
    LET e == Namei(f, ROOT, p, FALSE, MaxLinks)
    IN  IF e \in DOMAIN f THEN e ELSE NONE

\* os.path.exists, os.path.isdir, os.path.islink: FALSE on any error.
exists(f, p) == Stat(f, p) # NONE
is_dir(f, p) == Stat(f, p) # NONE /\ f[Stat(f, p)].kind = "dir"
islink(f, p) == LStat(f, p) # NONE /\ f[LStat(f, p)].kind = "link"

\* Path.exists and Path.is_dir give the same answers, but raise the
\* OSError of a name that is too long instead of answering FALSE.
path_raises(f, p) == Namei(f, ROOT, p, TRUE, MaxLinks) = TOOLONG

\* os.path.realpath (not strict): symlinks and ".." resolved left to
\* right, missing components kept as written; NONE on a symlink loop.
RECURSIVE RealPath(_, _, _, _)
RealPath(f, cur, rest, fuel) ==
    IF rest = <<>> THEN cur
    ELSE LET c == Head(rest)
             r == Tail(rest)
             nxt == Append(cur, c)
         IN  IF c = EMPTY THEN RealPath(f, cur, r, fuel)
             ELSE IF c = DOTDOT
             THEN RealPath(f, IF cur = ROOT THEN ROOT ELSE Front(cur), r, fuel)
             ELSE IF nxt \in DOMAIN f /\ f[nxt].kind = "link"
             THEN IF fuel = 0 THEN NONE
                  ELSE RealPath(f, ROOT, f[nxt].target \o r, fuel - 1)
             ELSE RealPath(f, nxt, r, fuel)

\* Path.resolve(): NONE stands for the RuntimeError of a symlink loop.
resolve(f, p) == RealPath(f, ROOT, p, MaxLinks)

\* The walk failed: no entry, present or missing, is named.
NoEntry(e) == e = NONE \/ e = TOOLONG

\* f without the entries of P.
Without(f, P) == [q \in DOMAIN f \ P |-> f[q]]

\* f with the node n at the canonical path p.
WithNode(f, p, n) == [q \in DOMAIN f \cup {p} |-> IF q = p THEN n ELSE f[q]]

\* f with the subtree at sp re-rooted at dp, replacing whatever dp held.
MoveTree(f, sp, dp) ==
    LET moved == {dp \o SubSeq(q, Len(sp) + 1, Len(q)) : q \in Subtree(f, sp)}
        kept == DOMAIN f \ (Subtree(f, sp) \cup Subtree(f, dp))
    IN  [q \in kept \cup moved |->
            IF q \in moved THEN f[sp \o SubSeq(q, Len(dp) + 1, Len(q))] ELSE f[q]]

\* A call's outcome: ok is FALSE when it raised; fs is the filesystem left.
Ok(f) == [ok |-> TRUE, fs |-> f]
Raise(f) == [ok |-> FALSE, fs |-> f]

\* os.rename(src, dst): the entry src names (symlinks not followed) moves
\* to dst, replacing a file or an empty directory of its own kind there.
os_rename(f, src, dst) ==
    LET sp == LStat(f, src)
        dp == Namei(f, ROOT, dst, FALSE, MaxLinks)
        legal ==
            /\ ~IsRoot(src) /\ ~IsRoot(dst)
            /\ Last(src) # DOTDOT /\ Last(dst) # DOTDOT
            /\ sp # NONE /\ sp # ROOT
            /\ ~NoEntry(dp) /\ dp # ROOT
            /\ ~IsProperPrefix(sp, dp)
            /\ (dp \in DOMAIN f /\ dp # sp) =>
                  IF f[sp].kind = "dir"
                  THEN f[dp].kind = "dir" /\ Children(f, dp) = {}
                  ELSE f[dp].kind # "dir"
    IN  IF ~legal THEN Raise(f)
        ELSE IF sp = dp THEN Ok(f)
        ELSE Ok(MoveTree(f, sp, dp))

\* os.unlink(p): removes a file or a symlink.
os_unlink(f, p) ==
    LET e == LStat(f, p)
    IN  IF e = NONE \/ f[e].kind = "dir" THEN Raise(f) ELSE Ok(Without(f, {e}))

\* A removal that follows a symlink to the tree it points to.
rmtree_following_links(f, p) ==
    LET e == Stat(f, p)
    IN  IF e = NONE \/ e = ROOT \/ f[e].kind # "dir" THEN Raise(f)
        ELSE Ok(Without(f, Subtree(f, e)))

\* shutil.rmtree(p): removes the directory tree at p; refuses a symlink
\* and anything that is no directory.  What the directory holds is removed
\* first and the directory itself last, by os.rmdir(p): that call fails for
\* a root and for a path ending in "..", and the directory stays, empty.
rmtree(f, p) ==
    LET e == LStat(f, p)
    IN  IF e = NONE \/ f[e].kind # "dir" THEN Raise(f)
        ELSE IF e = ROOT \/ IsRoot(p) \/ Last(p) = DOTDOT
        THEN Raise(Without(f, Subtree(f, e) \ {e}))
        ELSE Ok(Without(f, Subtree(f, e)))

\* os.mkdir(p) as the last step of os.makedirs on the filesystem g: a
\* failure is forgiven when exist_ok and p is a directory; exists tells
\* that the failure was FileExistsError.
MakedirsLast(g, p, exist_ok, e) ==
    IF ~NoEntry(e) /\ e \notin DOMAIN g
    THEN [ok |-> TRUE, fs |-> WithNode(g, e, DirNode(0)), exists |-> FALSE]
    ELSE IF exist_ok /\ is_dir(g, p)
    THEN [ok |-> TRUE, fs |-> g, exists |-> FALSE]
    ELSE [ok |-> FALSE, fs |-> g, exists |-> ~NoEntry(e)]

\* os.makedirs after the call for the head returned up: FileExistsError
\* from that call is passed over, any other error ends the call.
MakedirsAfterHead(up, p, exist_ok) ==
    IF ~up.ok /\ ~up.exists THEN up
    ELSE MakedirsLast(up.fs, p, exist_ok, Namei(up.fs, ROOT, p, FALSE, MaxLinks))

\* os.makedirs(p, exist_ok): when the head of p does not exist it is made
\* first, by the same rule; then p itself is made.
RECURSIVE MakedirsRec(_, _, _)
MakedirsRec(f, p, exist_ok) ==
    IF ~IsRoot(p) /\ ~exists(f, Front(p))
    THEN MakedirsAfterHead(MakedirsRec(f, Front(p), exist_ok), p, exist_ok)
    ELSE MakedirsLast(f, p, exist_ok, Namei(f, ROOT, p, FALSE, MaxLinks))

makedirs(f, p, exist_ok) ==
    LET r == MakedirsRec(f, p, exist_ok) IN [ok |-> r.ok, fs |-> r.fs]

\* Path.mkdir(exist_ok=False): one new directory in an existing parent.
mkdir(f, p) ==
    LET e == Namei(f, ROOT, p, FALSE, MaxLinks)
    IN  IF IsRoot(p) \/ NoEntry(e) \/ e \in DOMAIN f THEN Raise(f)
        ELSE Ok(WithNode(f, e, DirNode(0)))

\* Path.touch(exist_ok=False): one new empty file in an existing parent.
touch(f, p) ==
    LET e == Namei(f, ROOT, p, FALSE, MaxLinks)
    IN  IF IsRoot(p) \/ NoEntry(e) \/ e \in DOMAIN f THEN Raise(f)
        ELSE Ok(WithNode(f, e, FileNode(0)))

\* open(p, "wb") and a write of the content of the file node n: creates or
\* truncates the file p names, following symlinks.
write_file(f, p, n) ==
    LET e == Namei(f, ROOT, p, TRUE, MaxLinks)
    IN  IF IsRoot(p) \/ NoEntry(e) \/ e = ROOT \/ ~IsDirAt(f, Front(e)) \/ IsDirAt(f, e)
        THEN Raise(f)
        ELSE Ok(WithNode(f, e, n))

\* ---------------------------------------------------------------- shutil
\* shutil.copy2(src, dst): the content of the file src names is written to
\* dst, or into dst under src's base name when dst is a directory.
copy2(f, src, dst) ==
    LET s == Stat(f, src)
        to == IF is_dir(f, dst) THEN Append(dst, PathName(src)) ELSE dst
    IN  IF s = NONE \/ f[s].kind # "file" \/ Stat(f, to) = s THEN Raise(f)
        ELSE write_file(f, to, f[s])

\* The names os.scandir and Path.iterdir list in the directory at the
\* canonical path d.  The order of a listing is the filesystem's: a loop
\* over a listing may take the names in any order.
scandir(f, d) == {Last(q) : q \in Children(f, d)}

\* os.symlink(target, p): a new symlink at a path that names nothing yet.
os_symlink(f, target, p) ==
    LET e == Namei(f, ROOT, p, FALSE, MaxLinks)
    IN  IF NoEntry(e) \/ e \in DOMAIN f THEN Raise(f)
        ELSE Ok(WithNode(f, e, LinkNode(target)))

\* shutil.copytree(src, dst, symlinks, dirs_exist_ok): dst is made a
\* directory and every entry of src is copied into it, a failure on one
\* entry not stopping the others; raises at the end if any entry failed.
\* The outcomes over every order of the listing.  A run x of the loop is
\* the set of names it has taken (done), the filesystem it has made, and
\* x.ok telling that no entry failed so far; X holds the runs that have
\* taken equally many names.
RECURSIVE copytree(_, _, _, _, _, _)
CopyEntryDone(x, n, r) == [done |-> x.done \cup {n}, ok |-> x.ok /\ r.ok, fs |-> r.fs]
CopyEntry(x, n, srcname, dstname, symlinks, dirs_exist_ok, depth) ==
    IF srcname \notin DOMAIN x.fs THEN {CopyEntryDone(x, n, Raise(x.fs))}
    ELSE IF x.fs[srcname].kind = "link" /\ symlinks
    THEN {CopyEntryDone(x, n, os_symlink(x.fs, x.fs[srcname].target, dstname))}
    ELSE IF is_dir(x.fs, srcname)
    THEN {CopyEntryDone(x, n, r) :
            r \in copytree(x.fs, srcname, dstname, symlinks, dirs_exist_ok, depth - 1)}
    ELSE {CopyEntryDone(x, n, copy2(x.fs, srcname, dstname))}
RECURSIVE CopyEntries(_, _, _, _, _, _, _)
CopyEntries(X, s, names, dst, symlinks, dirs_exist_ok, depth) ==
    IF \A x \in X : x.done = names THEN {[ok |-> x.ok, fs |-> x.fs] : x \in X}
    ELSE CopyEntries(UNION {UNION {CopyEntry(x, n, Append(s, n), Append(dst, n),
                                             symlinks, dirs_exist_ok, depth) :
                                     n \in names \ x.done} : x \in X},
                     s, names, dst, symlinks, dirs_exist_ok, depth)
CopyTreeMade(made, s, entries, dst, symlinks, dirs_exist_ok, depth) ==
    IF ~made.ok THEN {Raise(made.fs)}
    ELSE CopyEntries({[done |-> {}, ok |-> TRUE, fs |-> made.fs]}, s, entries, dst,
                     symlinks, dirs_exist_ok, depth)
copytree(f, src, dst, symlinks, dirs_exist_ok, depth) ==
    LET s == Stat(f, src)
    IN  IF s = NONE \/ f[s].kind # "dir" \/ depth = 0 THEN {Raise(f)}
        ELSE CopyTreeMade(makedirs(f, dst, dirs_exist_ok), s, scandir(f, s), dst,
                          symlinks, dirs_exist_ok, depth)

\* os.path.normpath of the components rest after the normalised done: a
\* ".." removes the component before it, and nothing at the root.
RECURSIVE NormPath(_, _)
NormPath(done, rest) ==
    IF rest = <<>> THEN done
    ELSE IF Head(rest) = DOTDOT
         THEN NormPath(IF done = <<>> THEN done ELSE Front(done), Tail(rest))
         ELSE IF Head(rest) = EMPTY THEN NormPath(done, Tail(rest))
         ELSE NormPath(Append(done, Head(rest)), Tail(rest))

\* os.path.abspath of an absolute path: the root "//" is kept.
abspath(p) ==
    IF p # <<>> /\ Head(p) = EMPTY THEN <<EMPTY>> \o NormPath(<<>>, Tail(p))
    ELSE NormPath(<<>>, p)

\* shutil._destinsrc: the text of abspath(dst) starts with the text of
\* abspath(src), each ended by a slash; dst equal to src counts.
destinsrc(src, dst) == IsPrefix(abspath(src), abspath(dst))

\* shutil.move(src, dst): into dst when dst is a directory, else onto dst;
\* os.rename first, and when that fails a copy followed by a removal.
\* The outcomes the call can have.
MoveCopiedTree(copied, src) == IF ~copied.ok THEN copied ELSE rmtree(copied.fs, src)
MoveCopiedFile(copied, src) == IF ~copied.ok THEN copied ELSE os_unlink(copied.fs, src)
MoveRenamed(f, src, dst, real_dst, renamed) ==
    IF renamed.ok THEN {renamed}
    ELSE IF islink(f, src)
    THEN {MoveCopiedFile(os_symlink(f, f[LStat(f, src)].target, real_dst), src)}
    ELSE IF is_dir(f, src)
    THEN IF destinsrc(src, dst) THEN {Raise(f)}
         ELSE {MoveCopiedTree(copied, src) :
                 copied \in copytree(f, src, real_dst, TRUE, FALSE, MaxDepth)}
    ELSE {MoveCopiedFile(copy2(f, src, real_dst), src)}
MoveInto(f, src, dst, real_dst) ==
    IF exists(f, real_dst) THEN {Raise(f)}
    ELSE MoveRenamed(f, src, dst, real_dst, os_rename(f, src, real_dst))
shutil_move(f, src, dst) ==
    IF is_dir(f, dst)
    THEN IF Stat(f, src) = Stat(f, dst) THEN {os_rename(f, src, dst)}
         ELSE MoveInto(f, src, dst, Append(dst, PathName(src)))
    ELSE MoveRenamed(f, src, dst, dst, os_rename(f, src, dst))

\* -------------------------------------------------------------- archives
\* The data of a file that is a zip archive, and of one that holds the
\* bytes an archive had while it was being written.
ZIP == -1
PARTIAL == -2
ZIPEXT == <<".", "z", "i", "p">>

\* A member of an archive: its name as the components of a relative path,
\* whether it is a directory, and for a file the content n holds.
Member(path, dir, n) ==
    [path |-> path, dir |-> dir, data |-> n.data, entries |-> n.entries]

\* The printable ASCII characters, but for the quotes and the backslash, in
\* the order of their code points, which is the order sorted() puts
\* strings in.
Ascii ==
    <<" ", "!", "#", "$", "%", "&", "(", ")", "*", "+", ",", "-", ".", "/",
      "0", "1", "2", "3", "4", "5", "6", "7", "8", "9", ":", ";", "<", "=", ">", "?",
      "@", "A", "B", "C", "D", "E", "F", "G", "H", "I", "J", "K", "L", "M", "N", "O",
      "P", "Q", "R", "S", "T", "U", "V", "W", "X", "Y", "Z", "[", "]", "^", "_",
      "a", "b", "c", "d", "e", "f", "g", "h", "i", "j", "k", "l", "m", "n", "o",
      "p", "q", "r", "s", "t", "u", "v", "w", "x", "y", "z", "{", "|", "}", "~">>
Ord(c) == CHOOSE i \in DOMAIN Ascii : Ascii[i] = c
NameLess(a, b) ==
    LET D == {i \in 1..Len(a) : i <= Len(b) /\ a[i] # b[i]}
    IN  IF D = {} THEN Len(a) < Len(b)
        ELSE Ord(a[CHOOSE i \in D : \A j \in D : i <= j])
                < Ord(b[CHOOSE i \in D : \A j \in D : i <= j])

\* sorted(names)
Sorted(names) ==
    [i \in 1..Cardinality(names) |->
        CHOOSE x \in names : Cardinality({y \in names : NameLess(y, x)}) = i - 1]

\* ZipFile.write of the file at the canonical path q under the name rel,
\* into the archive at e of which written has been written: a file is read
\* as it is then, and the archive itself holds what was written before.

\* shutil._make_zipfile's loop over os.walk(d), every order of the
\* listings: the directories of d sorted, then the regular files of d as
\* listed, then the same for each directory of d that is no symlink.  X
\* holds what can have been written so far.
RECURSIVE ZipWalk(_, _, _, _, _)
ZipDirMembers(rel, sorted) ==
    [i \in DOMAIN sorted |-> Member(Append(rel, sorted[i]), TRUE, DirNode(0))]
ZipAddFile(g, q, rel, e, written) ==
    IF q # NONE /\ g[q].kind = "file"
    THEN Append(written,
                Member(rel, FALSE,
                       IF q = e /\ written # <<>> THEN FileNode(PARTIAL) ELSE g[q]))
    ELSE written
RECURSIVE ZipAddFiles(_, _, _, _, _, _)
ZipAddFiles(g, d, rel, e, X, files) ==
    IF files = {} THEN X
    ELSE UNION {ZipAddFiles(g, d, rel, e,
                            {ZipAddFile(g, Stat(g, Append(d, n)), Append(rel, n), e, written) :
                                written \in X},
                            files \ {n}) : n \in files}
RECURSIVE ZipWalkDirs(_, _, _, _, _, _)
ZipWalkDirs(g, d, rel, e, X, dirs) ==
    IF dirs = {} THEN X
    ELSE UNION {ZipWalkDirs(g, d, rel, e,
                            IF g[Append(d, n)].kind = "link" THEN X
                            ELSE ZipWalk(g, Append(d, n), Append(rel, n), e, X),
                            dirs \ {n}) : n \in dirs}
ZipWalkListed(g, d, rel, e, X, dirs, files) ==
    ZipWalkDirs(g, d, rel, e,
                ZipAddFiles(g, d, rel, e,
                            {written \o ZipDirMembers(rel, Sorted(dirs)) : written \in X},
                            files),
                dirs)
ZipWalk(g, d, rel, e, X) ==
    ZipWalkListed(g, d, rel, e, X,
                  {n \in scandir(g, d) : is_dir(g, Append(d, n))},
                  {n \in scandir(g, d) : ~is_dir(g, Append(d, n))})

\* ZipFile(zip_filename, "w") ... close(): the archive file is made, or
\* emptied, when it is opened, and gets its members when it is closed.
ZipClosed(g, e, written) == WithNode(g, e, [kind |-> "file", data |-> ZIP, target |-> ROOT, entries |-> written])

\* shutil.make_archive(str(src), "zip", src): every outcome.  The walk
\* starts from the directory the normalised text of src names.
MakeZipOpened(opened, src, zip_filename) ==
    IF ~opened.ok THEN {Raise(opened.fs)}
    ELSE LET d == Stat(opened.fs, abspath(src))
             e == Stat(opened.fs, zip_filename)
         IN  IF d = NONE \/ opened.fs[d].kind # "dir"
             THEN {Ok(ZipClosed(opened.fs, e, <<>>))}
             ELSE {Ok(ZipClosed(opened.fs, e, written)) :
                     written \in ZipWalk(opened.fs, d, <<>>, e, {<<>>})}
make_archive(f, src) ==
    MakeZipOpened(write_file(f, Front(src) \o <<Last(src) \o ZIPEXT>>, FileNode(0)),
                  src, Front(src) \o <<Last(src) \o ZIPEXT>>)

\* with zipfile.ZipFile(str(zip_path), "w") as zipf:
\*     zipf.write(src, arcname=src.name)
\* When src cannot be read the archive is left, empty.
ZipOneOpened(opened, src, zip_path) ==
    IF ~opened.ok THEN Raise(opened.fs)
    ELSE LET s == Stat(opened.fs, src)
             e == Stat(opened.fs, zip_path)
         IN  IF s = NONE \/ opened.fs[s].kind # "file"
             THEN Raise(ZipClosed(opened.fs, e, <<>>))
             ELSE Ok(ZipClosed(opened.fs, e,
                               <<Member(<<PathName(src)>>, FALSE, opened.fs[s])>>))

\* PurePath.with_suffix(suffix) of a path that has a name.
with_suffix(p, suffix) == Append(Front(p), PathStem(p) \o suffix)

\* str.endswith
EndsWith(s, tail) ==
    Len(s) >= Len(tail) /\ SubSeq(s, Len(s) - Len(tail) + 1, Len(s)) = tail

\* zipfile.is_zipfile(p)
is_zipfile(f, p) ==
    Stat(f, p) # NONE /\ f[Stat(f, p)].kind = "file" /\ f[Stat(f, p)].data = ZIP

\* ".." in name, for a member's name
HasDotDot(path) ==
    \E i \in DOMAIN path : \E j \in 1..(Len(path[i]) - 1) :
        path[i][j] = "." /\ path[i][j + 1] = "."

\* shutil._unpack_zipfile's loop: each member in the order of the archive,
\* a member with ".." in its name passed over; the directory a member lies
\* in is made when missing, then a file member is written.  The first
\* failure ends the loop.
UnpackEnsured(ensured, target, m) ==
    IF ~ensured.ok \/ m.dir THEN ensured
    ELSE write_file(ensured.fs, target,
                    [kind |-> "file", data |-> m.data, target |-> ROOT, entries |-> m.entries])
UnpackIn(g, dirname, target, m) ==
    UnpackEnsured(IF is_dir(g, dirname) THEN Ok(g) ELSE makedirs(g, dirname, FALSE),
                  target, m)
UnpackMember(g, extract_dir, m) ==
    IF HasDotDot(m.path) THEN Ok(g)
    ELSE UnpackIn(g, IF m.dir THEN extract_dir \o m.path ELSE Front(extract_dir \o m.path),
                  extract_dir \o m.path, m)
RECURSIVE UnpackLoop(_, _, _)
UnpackLoop(r, extract_dir, members) ==
    IF ~r.ok \/ members = <<>> THEN r
    ELSE UnpackLoop(UnpackMember(r.fs, extract_dir, Head(members)), extract_dir,
                    Tail(members))

\* shutil.unpack_archive(filename, extract_dir): the format is told by the
\* end of the file's name; a file that does not hold it is refused.
unpack_archive(f, filename, extract_dir) ==
    IF ~EndsWith(Unparse(filename), ZIPEXT) \/ ~is_zipfile(f, filename) THEN Raise(f)
    ELSE UnpackLoop(Ok(f), extract_dir, f[Stat(f, filename)].entries)

\* ------------------------------------------------- server configuration
\* The host the server runs on: it is installed in /srv/app and started by
\* the user whose home directory is /h.
N_srv == <<"s", "r", "v">>
N_app == <<"a", "p", "p">>
N_server_py == <<"s", "e", "r", "v", "e", "r", ".", "p", "y">>
N_templates == <<"t", "e", "m", "p", "l", "a", "t", "e", "s">>
N_home == <<"h">>
N_trash == <<".", "l", "i", "q", "u", "i", "d", "_", "c", "o", "m", "m", "a", "n", "d", "e", "r", "_", "t", "r", "a", "s", "h">>

BASE_DIR == ROOT
SERVER_DIR == <<N_srv, N_app>>
HOME == <<N_home>>
TRASH_DIR == Append(HOME, N_trash)
PROTECTED_PATHS ==
    {BASE_DIR, SERVER_DIR, Append(SERVER_DIR, N_server_py),
     Append(SERVER_DIR, N_templates), TRASH_DIR}

\* --------------------------------------------------------- trash manager
ensure_trash_dir(f) == makedirs(f, TRASH_DIR, TRUE)

\* A registry that leaves the trash directory out.
is_protected_path_without_trash(f, path) ==
    resolve(f, path) \in PROTECTED_PATHS \ {TRASH_DIR}

is_protected_path(f, path) == resolve(f, path) \in PROTECTED_PATHS

\* A membership test that compares for identity only.
is_in_trash_exact(f, path) == resolve(f, path) = TRASH_DIR

is_in_trash(f, path) ==
    LET resolved == resolve(f, path)
    IN  resolved # NONE /\ (resolved = TRASH_DIR \/ TRASH_DIR \in Parents(resolved))

\* The name an entry gets in the trash: its own, or on a collision its
\* stem, the time to the second, and its suffix.
\* A destination that ignores collisions.
TrashDest_no_rename(f, resolved, t) == JoinPath(TRASH_DIR, PathName(resolved))

TrashDest(f, resolved, t) ==
    LET dest == JoinPath(TRASH_DIR, PathName(resolved))
    IN  IF ~exists(f, dest) THEN dest
        ELSE JoinPath(TRASH_DIR,
                      PathStem(resolved) \o <<"_">> \o Strftime(t) \o PathSuffix(resolved))

\* What datetime.now() may give when the clock showed t before: the clock
\* is read only for an entry that finds its name taken, and time may have
\* passed since.
ClockReads(f, resolved, t) ==
    IF exists(f, JoinPath(TRASH_DIR, PathName(resolved))) THEN t..MaxClock ELSE {t}

\* move_to_trash(target) when the clock showed t, every outcome it can
\* have: ok is FALSE when it raised, ret is the value returned, now is
\* what the clock showed last.
Returned(ok, ret, f, t) == [ok |-> ok, ret |-> ret, fs |-> f, now |-> t]
TrashMovedAt(f, resolved, t) ==
    {Returned(moved.ok, moved.ok, moved.fs, t) :
        moved \in shutil_move(f, resolved, TrashDest(f, resolved, t))}
TrashResolved(f, resolved, t) ==
    IF resolved # NONE /\ path_raises(f, resolved) THEN {Returned(FALSE, FALSE, f, t)}
    ELSE IF resolved = NONE \/ ~exists(f, resolved) THEN {Returned(TRUE, FALSE, f, t)}
    ELSE UNION {TrashMovedAt(f, resolved, t2) : t2 \in ClockReads(f, resolved, t)}
TrashEnsured(ensured, target, t) ==
    IF ~ensured.ok THEN {Returned(FALSE, FALSE, ensured.fs, t)}
    ELSE TrashResolved(ensured.fs, resolve(ensured.fs, target), t)
move_to_trash(f, target, t) == TrashEnsured(ensure_trash_dir(f), target, t)

\* The erasure both delete handlers apply to an entry inside the trash.
permanently_delete(f, path) ==
    IF is_dir(f, path) THEN rmtree(f, path) ELSE os_unlink(f, path)

\* -------------------------------------------------------------- handlers
\* A handler's outcome: the HTTP status of the response (500 for an
\* exception no handler catches) and the filesystem left.
Response(code, f) == [status |-> code, fs |-> f]

\* A handler that may read the clock: its response, and what the clock
\* showed last.
Timed(code, f, t) == [status |-> code, fs |-> f, now |-> t]

\* GET /delete/{filepath} when the clock showed t: every outcome.
\* The response to a delete inside the trash, and to one outside it.
DeleteErased(erased, t) == Timed(IF erased.ok THEN 303 ELSE 500, erased.fs, t)
DeleteTrashed(trashed) ==
    Timed(IF ~trashed.ok THEN 500 ELSE IF ~trashed.ret THEN 400 ELSE 303,
          trashed.fs, trashed.now)
DeleteResolved(f, file_path, t) ==
    IF file_path = NONE \/ path_raises(f, file_path) THEN {Timed(500, f, t)}
    ELSE IF ~exists(f, file_path) THEN {Timed(404, f, t)}
    ELSE IF is_protected_path(f, file_path) THEN {Timed(403, f, t)}
    ELSE IF is_in_trash(f, file_path)
    THEN {DeleteErased(permanently_delete(f, file_path), t)}
    ELSE {DeleteTrashed(trashed) : trashed \in move_to_trash(f, file_path, t)}
delete_file(f, filepath, t) ==
    DeleteResolved(f, resolve(f, PathParts(<<SLASH>> \o LStrip(unquote(filepath), SLASH))), t)

\* One name of a batch delete: the filesystem left, the item's outcome,
\* "Raised" when the existence check before the try block raised, and what
\* the clock showed last.
Item(f, outcome, t) == [fs |-> f, outcome |-> outcome, now |-> t]
ItemErased(erased, t) ==
    Item(erased.fs, IF erased.ok THEN "ErasedPermanently" ELSE "Failed", t)
ItemTrashed(trashed) ==
    Item(trashed.fs, IF trashed.ok /\ trashed.ret THEN "MovedToTrash" ELSE "Failed",
         trashed.now)
BatchDeleteTarget(f, target, t) ==
    IF path_raises(f, target) THEN {Item(f, "Raised", t)}
    ELSE IF ~exists(f, target) \/ is_protected_path(f, target)
    THEN {Item(f, "Skipped", t)}
    ELSE IF is_in_trash(f, target) THEN {ItemErased(permanently_delete(f, target), t)}
    ELSE {ItemTrashed(trashed) : trashed \in move_to_trash(f, target, t)}

\* The loop over the names, every run it can have: it ends at the first
\* item that raised; items are the items reached so far, in order.
RECURSIVE BatchDeleteLoop(_, _, _, _, _)
BatchDeleteRest(r, parent_dir, names, items) ==
    IF r.outcome = "Raised"
    THEN {[fs |-> r.fs, now |-> r.now, items |-> Append(items, r)]}
    ELSE BatchDeleteLoop(r.fs, parent_dir, names, r.now, Append(items, r))
BatchDeleteLoop(f, parent_dir, names, t, items) ==
    IF names = <<>> THEN {[fs |-> f, now |-> t, items |-> items]}
    ELSE UNION {BatchDeleteRest(r, parent_dir, Tail(names), items) :
                  r \in BatchDeleteTarget(f, JoinPath(parent_dir, Head(names)), t)}

\* The runs of the loop from the resolved directory; no item is reached
\* when resolving it raised.
BatchDeleteRun(f, parent_dir, item_names, t) ==
    IF parent_dir = NONE THEN {[fs |-> f, now |-> t, items |-> <<Item(f, "Raised", t)>>]}
    ELSE BatchDeleteLoop(f, parent_dir, Split(item_names, ","), t, <<>>)
BatchDeleteDone(f, path, item_names, t) ==
    BatchDeleteRun(f, resolve(f, PathParts(unquote(path))), item_names, t)

\* POST /api/batch-delete when the clock showed t: every outcome.
BatchDeleteResponse(done) ==
    [status |-> IF Last(done.items).outcome = "Raised" THEN 500 ELSE 200,
     fs |-> done.fs, now |-> done.now, items |-> done.items]
batch_delete(f, path, item_names, t) ==
    {BatchDeleteResponse(done) : done \in BatchDeleteDone(f, path, item_names, t)}

\* The loop of emptyTrash over the listing, in every order.  A run x of
\* the loop is the set of names it has taken (done) and the filesystem it
\* has made; X holds the runs that have taken equally many names.
EmptyTrashChild(f, child) ==
    IF is_protected_path(f, child) THEN f ELSE permanently_delete(f, child).fs
RECURSIVE EmptyTrashLoop(_, _)
EmptyTrashLoop(X, children) ==
    IF \A x \in X : x.done = children THEN {x.fs : x \in X}
    ELSE EmptyTrashLoop(UNION {{[done |-> x.done \cup {c},
                                  fs |-> EmptyTrashChild(x.fs, Append(TRASH_DIR, c))] :
                                    c \in children \ x.done} : x \in X},
                        children)

\* POST /trash/empty
EmptyTrashEnsured(ensured) ==
    IF ~ensured.ok THEN {Response(500, ensured.fs)}
    ELSE {Response(200, f) :
            f \in EmptyTrashLoop({[done |-> {}, fs |-> ensured.fs]},
                                 scandir(ensured.fs, Stat(ensured.fs, TRASH_DIR)))}
empty_trash(f) == EmptyTrashEnsured(ensure_trash_dir(f))

\* The copy both copy handlers apply to one item.
CopyOne(f, src, dest) ==
    IF path_raises(f, src) THEN {Raise(f)}
    ELSE IF is_dir(f, src) THEN copytree(f, src, dest, FALSE, TRUE, MaxDepth)
    ELSE {copy2(f, src, dest)}

\* POST /copy
CopyResponse(copied) == Response(IF copied.ok THEN 200 ELSE 400, copied.fs)
copy_item(f, path, item_name, dest_path) ==
    {CopyResponse(copied) :
        copied \in CopyOne(f, JoinPath(PathParts(unquote(path)), item_name),
                           JoinPath(PathParts(unquote(dest_path)), item_name))}

\* POST /move
MoveResponse(moved) == Response(IF moved.ok THEN 200 ELSE 400, moved.fs)
move_item(f, path, item_name, dest_path) ==
    {MoveResponse(moved) :
        moved \in shutil_move(f, JoinPath(PathParts(unquote(path)), item_name),
                              JoinPath(PathParts(unquote(dest_path)), item_name))}

\* POST /zip
ZipResponse(zipped) == Response(IF zipped.ok THEN 200 ELSE 400, zipped.fs)
ZipSource(f, src) ==
    IF IsRoot(src) THEN {Response(500, f)}
    ELSE IF path_raises(f, src) THEN {Response(400, f)}
    ELSE IF is_dir(f, src) THEN {ZipResponse(zipped) : zipped \in make_archive(f, src)}
    ELSE {ZipResponse(ZipOneOpened(write_file(f, with_suffix(src, ZIPEXT), FileNode(0)),
                                   src, with_suffix(src, ZIPEXT)))}
zip_item(f, path, item_name) ==
    ZipSource(f, JoinPath(PathParts(unquote(path)), item_name))

\* POST /unzip
UnzipSource(f, src) ==
    ZipResponse(unpack_archive(f, src, JoinPath(Parent(src), PathStem(src))))
unzip_item(f, path, item_name) ==
    UnzipSource(f, JoinPath(PathParts(unquote(path)), item_name))

\* POST /create-folder
create_folder(f, path, name) ==
    LET made == mkdir(f, JoinPath(PathParts(unquote(path)), name))
    IN  Response(IF made.ok THEN 303 ELSE 400, made.fs)

\* POST /create-file
create_file(f, path, name) ==
    LET made == touch(f, JoinPath(PathParts(unquote(path)), name))
    IN  Response(IF made.ok THEN 303 ELSE 400, made.fs)

\* POST /rename
rename_item(f, path, old_name, new_name) ==
    LET base == PathParts(unquote(path))
        renamed == os_rename(f, JoinPath(base, old_name), JoinPath(base, new_name))
    IN  Response(IF renamed.ok THEN 303 ELSE 400, renamed.fs)

\* POST /upload of a file named filename holding data
upload_file(f, path, filename, data) ==
    LET target_dir == resolve(f, PathParts(unquote(path)))
        written == write_file(f, JoinPath(target_dir, filename), FileNode(data))
    IN  IF target_dir = NONE \/ path_raises(f, target_dir) THEN Response(500, f)
        ELSE IF ~is_dir(f, target_dir) THEN Response(400, f)
        ELSE Response(IF written.ok THEN 303 ELSE 500, written.fs)

\* The loop of a batch copy over the names; F holds the filesystems the
\* loop can have made so far.
RECURSIVE BatchCopyLoop(_, _, _, _)
BatchCopyLoop(F, src_dir, dst_dir, names) ==
    IF names = <<>> THEN F
    ELSE BatchCopyLoop({copied.fs : copied \in
                            UNION {CopyOne(f, JoinPath(src_dir, Head(names)),
                                           JoinPath(dst_dir, Head(names))) : f \in F}},
                       src_dir, dst_dir, Tail(names))

\* POST /api/batch-copy
BatchCopyResolved(f, src_dir, dst_dir, item_names) ==
    IF src_dir = NONE \/ dst_dir = NONE THEN {Response(500, f)}
    ELSE {Response(200, g) :
            g \in BatchCopyLoop({f}, src_dir, dst_dir, Split(item_names, ","))}
batch_copy(f, path, item_names, dest_path) ==
    BatchCopyResolved(f, resolve(f, PathParts(unquote(path))),
                      resolve(f, PathParts(unquote(dest_path))), item_names)

\* The loop of a batch move over the names; F holds the filesystems the
\* loop can have made so far.
RECURSIVE BatchMoveLoop(_, _, _, _)
BatchMoveLoop(F, src_dir, dst_dir, names) ==
    IF names = <<>> THEN F
    ELSE BatchMoveLoop({moved.fs : moved \in
                            UNION {shutil_move(f, JoinPath(src_dir, Head(names)),
                                               JoinPath(dst_dir, Head(names))) : f \in F}},
                       src_dir, dst_dir, Tail(names))

\* POST /api/batch-move
BatchMoveResolved(f, src_dir, dst_dir, item_names) ==
    IF src_dir = NONE \/ dst_dir = NONE THEN {Response(500, f)}
    ELSE {Response(200, g) :
            g \in BatchMoveLoop({f}, src_dir, dst_dir, Split(item_names, ","))}
batch_move(f, path, item_names, dest_path) ==
    BatchMoveResolved(f, resolve(f, PathParts(unquote(path))),
                      resolve(f, PathParts(unquote(dest_path))), item_names)

\* --------------------------------------------------------------- requests
\* Names of entries and of request parameters.
\* long is a name one character longer than a directory entry can be.
ItemName ==
    [d |-> <<"d">>, e |-> <<"e">>, l |-> <<"l">>, k |-> <<"k">>, n |-> <<"n">>,
     zz |-> <<"z", "z">>,
     a_txt |-> <<"a", ".", "t", "x", "t">>,
     b_txt |-> <<"b", ".", "t", "x", "t">>,
     d_zip |-> <<"d">> \o ZIPEXT,
     a_zip |-> <<"a">> \o ZIPEXT,
     long |-> [i \in 1..256 |-> "x"]]

\* The client's encoding of a list of names: joined by commas.
RECURSIVE Csv(_)
Csv(names) ==
    IF Len(names) = 1 THEN names[1] ELSE names[1] \o <<",">> \o Csv(Tail(names))

\* The directories requests name, as the strings a client sends.
Dir ==
    [root |-> Unparse(ROOT), home |-> Unparse(HOME), trash |-> Unparse(TRASH_DIR),
     app |-> Unparse(SERVER_DIR),
     d |-> Unparse(<<N_home, ItemName.d>>),
     e |-> Unparse(<<N_home, ItemName.e>>),
     zz |-> Unparse(<<N_home, ItemName.zz>>)]

\* The host's filesystem when the server has started: the installation,
\* the user's files (a.txt and b.txt each in two directories), a symlink l
\* to the directory d, a trash that already holds a file a.txt, and a
\* symlink k to that file.
InitFS ==
    LET rows == {
            <<ROOT, DirNode(10)>>,
            <<<<N_srv>>, DirNode(11)>>,
            <<SERVER_DIR, DirNode(12)>>,
            <<Append(SERVER_DIR, N_server_py), FileNode(9)>>,
            <<Append(SERVER_DIR, N_templates), DirNode(13)>>,
            <<HOME, DirNode(14)>>,
            <<TRASH_DIR, DirNode(15)>>,
            <<Append(TRASH_DIR, ItemName.a_txt), FileNode(4)>>,
            <<<<N_home, ItemName.d>>, DirNode(16)>>,
            <<<<N_home, ItemName.d, ItemName.a_txt>>, FileNode(1)>>,
            <<<<N_home, ItemName.e>>, DirNode(17)>>,
            <<<<N_home, ItemName.e, ItemName.b_txt>>, FileNode(2)>>,
            <<<<N_home, ItemName.a_txt>>, FileNode(3)>>,
            <<<<N_home, ItemName.b_txt>>, FileNode(5)>>,
            <<<<N_home, ItemName.l>>, LinkNode(<<N_home, ItemName.d>>)>>,
            <<<<N_home, ItemName.k>>, LinkNode(Append(TRASH_DIR, ItemName.a_txt))>> }
    IN  [p \in {r[1] : r \in rows} |-> (CHOOSE r \in rows : r[1] = p)[2]]

\* A request: its handler, its parameters, and what the clock showed when
\* it was answered.
Request(op, path, names, dest, data) ==
    [op |-> op, path |-> path, names |-> names, dest |-> dest, data |-> data, at |-> 0]

\* GET /delete/{filepath}: every existing entry by its canonical path, a
\* protected directory spelled through "..", a percent-encoded path, a
\* missing entry, and a name too long to exist.
DeleteInputs(f) ==
    {Unparse(q) : q \in DOMAIN f}
        \cup {Dir.app \o <<SLASH>> \o N_templates \o <<SLASH>> \o DOTDOT,
              <<"%", "2", "F">> \o N_home \o <<"%", "2", "F">> \o ItemName.e,
              Dir.zz,
              Dir.home \o <<SLASH>> \o ItemName.long}

\* POST /api/batch-delete: <<path, item_names>>
BatchDeleteInputs ==
    {<<Dir.home, Csv(<<N_trash, ItemName.a_txt>>)>>,
     <<Dir.home, Csv(<<ItemName.a_txt, N_trash>>)>>,
     <<Dir.home, Csv(<<ItemName.d, ItemName.e>>)>>,
     <<Dir.home, Csv(<<ItemName.zz, ItemName.b_txt>>)>>,
     <<Dir.home, Csv(<<ItemName.long, ItemName.b_txt>>)>>,
     <<Dir.home, Csv(<<ItemName.l, ItemName.a_txt>>)>>,
     <<Dir.home, ItemName.k>>,
     <<Dir.root, Csv(<<EMPTY, N_home>>)>>,
     <<Dir.app, Csv(<<N_server_py, DOTDOT>>)>>,
     <<Dir.trash, Csv(<<ItemName.a_txt, ItemName.l>>)>>,
     <<Dir.d, EMPTY>>}

\* POST /move and POST /copy: <<path, item_name, dest_path>>
MoveInputs ==
    {<<Dir.home, ItemName.l, Dir.trash>>,
     <<Dir.home, ItemName.d, Dir.e>>,
     <<Dir.home, N_trash, Dir.d>>,
     <<Dir.app, N_server_py, Dir.home>>,
     <<Dir.trash, ItemName.a_txt, Dir.d>>,
     <<Dir.home, ItemName.a_txt, Dir.zz>>}
CopyInputs ==
    {<<Dir.home, ItemName.a_txt, Dir.d>>,
     <<Dir.home, ItemName.d, Dir.e>>,
     <<Dir.home, ItemName.l, Dir.e>>,
     <<Dir.d, ItemName.a_txt, Dir.d>>}

\* POST /api/batch-move and POST /api/batch-copy: <<path, item_names, dest_path>>
BatchMoveInputs ==
    {<<Dir.home, Csv(<<ItemName.zz, ItemName.a_txt>>), Dir.e>>,
     <<Dir.home, Csv(<<ItemName.a_txt, ItemName.b_txt>>), Dir.d>>,
     <<Dir.app, Csv(<<N_server_py, N_templates>>), Dir.home>>}
BatchCopyInputs ==
    {<<Dir.home, Csv(<<ItemName.zz, ItemName.a_txt>>), Dir.d>>,
     <<Dir.home, Csv(<<ItemName.long, ItemName.b_txt>>), Dir.d>>,
     <<Dir.home, Csv(<<ItemName.d, ItemName.a_txt>>), Dir.e>>}

\* POST /create-folder and POST /create-file: <<path, name>>
CreateInputs ==
    {<<Dir.home, ItemName.n>>, <<Dir.home, ItemName.d>>, <<Dir.home, ItemName.a_txt>>}

\* POST /rename: <<path, old_name, new_name>>
RenameInputs ==
    {<<Dir.home, ItemName.a_txt, ItemName.b_txt>>,
     <<Dir.home, ItemName.a_txt, ItemName.n>>,
     <<Dir.home, ItemName.a_txt, ItemName.d>>,
     <<Dir.home, ItemName.d, ItemName.e>>,
     <<Dir.home, ItemName.d, ItemName.n>>,
     <<Dir.app, N_server_py, ItemName.n>>}

\* POST /upload: <<path, filename>>; the uploaded content is UploadData.
UploadInputs ==
    {<<Dir.home, ItemName.a_txt>>, <<Dir.home, ItemName.n>>, <<Dir.app, N_server_py>>}
UploadData == 7

\* POST /zip and POST /unzip: <<path, item_name>>
ZipInputs ==
    {<<Dir.home, ItemName.d>>, <<Dir.home, ItemName.a_txt>>, <<Dir.app, N_server_py>>}
UnzipInputs ==
    {<<Dir.home, ItemName.d_zip>>, <<Dir.home, ItemName.a_zip>>, <<Dir.home, ItemName.a_txt>>}

\* ---------------------------------------------------------- state machine
VARIABLES
    fs,     \* the filesystem
    now,    \* what the wall clock showed when it was last read, in seconds
    ops,    \* requests served so far
    req,    \* the last request served
    pre,    \* the filesystem that request found
    resp,   \* the HTTP status it was answered with
    items   \* for a batch delete, the items its loop reached, in order
vars == <<fs, now, ops, req, pre, resp, items>>

Init ==
    /\ fs = InitFS
    /\ now = 0
    /\ ops = 0
    /\ req = Request("none", EMPTY, EMPTY, EMPTY, 0)
    /\ pre = InitFS
    /\ resp = 0
    /\ items = <<>>

\* The server answers request r with the response out, the clock showing t
\* by then, after its loop reached the items its.
Serve(r, out, t, its) ==
    /\ ops < MaxOps
    /\ ops' = ops + 1
    /\ req' = [r EXCEPT !.at = t]
    /\ pre' = fs
    /\ fs' = out.fs
    /\ resp' = out.status
    /\ now' = t
    /\ items' = its

Delete ==
    /\ ops < MaxOps
    /\ \E filepath \in DeleteInputs(fs) :
        \E out \in delete_file(fs, filepath, now) :
            Serve(Request("delete", filepath, EMPTY, EMPTY, 0), out, out.now, <<>>)

BatchDelete ==
    /\ ops < MaxOps
    /\ \E i \in BatchDeleteInputs :
        \E out \in batch_delete(fs, i[1], i[2], now) :
            Serve(Request("batch_delete", i[1], i[2], EMPTY, 0), out, out.now, out.items)

EmptyTrash ==
    /\ ops < MaxOps
    /\ \E out \in empty_trash(fs) :
        Serve(Request("empty_trash", EMPTY, EMPTY, EMPTY, 0), out, now, <<>>)

Move ==
    /\ ops < MaxOps
    /\ \E i \in MoveInputs :
        \E out \in move_item(fs, i[1], i[2], i[3]) :
            Serve(Request("move", i[1], i[2], i[3], 0), out, now, <<>>)

Copy ==
    /\ ops < MaxOps
    /\ \E i \in CopyInputs :
        \E out \in copy_item(fs, i[1], i[2], i[3]) :
            Serve(Request("copy", i[1], i[2], i[3], 0), out, now, <<>>)

BatchMove ==
    /\ ops < MaxOps
    /\ \E i \in BatchMoveInputs :
        \E out \in batch_move(fs, i[1], i[2], i[3]) :
            Serve(Request("batch_move", i[1], i[2], i[3], 0), out, now, <<>>)

BatchCopy ==
    /\ ops < MaxOps
    /\ \E i \in BatchCopyInputs :
        \E out \in batch_copy(fs, i[1], i[2], i[3]) :
            Serve(Request("batch_copy", i[1], i[2], i[3], 0), out, now, <<>>)

CreateFolder ==
    \E i \in CreateInputs :
        Serve(Request("create_folder", i[1], i[2], EMPTY, 0), create_folder(fs, i[1], i[2]),
              now, <<>>)

CreateFile ==
    \E i \in CreateInputs :
        Serve(Request("create_file", i[1], i[2], EMPTY, 0), create_file(fs, i[1], i[2]),
              now, <<>>)

Rename ==
    \E i \in RenameInputs :
        Serve(Request("rename", i[1], i[2], i[3], 0), rename_item(fs, i[1], i[2], i[3]),
              now, <<>>)

Upload ==
    \E i \in UploadInputs :
        Serve(Request("upload", i[1], i[2], EMPTY, UploadData),
              upload_file(fs, i[1], i[2], UploadData), now, <<>>)

Zip ==
    /\ ops < MaxOps
    /\ \E i \in ZipInputs :
        \E out \in zip_item(fs, i[1], i[2]) :
            Serve(Request("zip", i[1], i[2], EMPTY, 0), out, now, <<>>)

Unzip ==
    \E i \in UnzipInputs :
        Serve(Request("unzip", i[1], i[2], EMPTY, 0), unzip_item(fs, i[1], i[2]), now, <<>>)

Next ==
    \/ Delete
    \/ BatchDelete
    \/ EmptyTrash
    \/ Move
    \/ Copy
    \/ BatchMove
    \/ BatchCopy
    \/ CreateFolder
    \/ CreateFile
    \/ Rename
    \/ Upload
    \/ Zip
    \/ Unzip

Spec == Init /\ [][Next]_vars

\* ================================================================ claims
\* What the last request, a single-item delete, resolved its path to.
DeleteTarget ==
    resolve(pre, PathParts(<<SLASH>> \o LStrip(unquote(req.path), SLASH)))

UnderTrash(p) == IsProperPrefix(TRASH_DIR, p)

\* The last request was a single-item delete of an existing entry.
DeletedExisting ==
    /\ req.op = "delete"
    /\ DeleteTarget \in DOMAIN pre

\* The subtree of f at p, as the set of <<relative path, node>> it holds.
TreeAt(f, p) == {<<SubSeq(q, Len(p) + 1, Len(q)), f[q]>> : q \in Subtree(f, p)}

\* C1: a single-item delete of a path that resolves to a member of the
\* Protected Set is answered 403 Forbidden and changes nothing.
C1_ProtectedDeleteForbidden ==
    (DeletedExisting /\ DeleteTarget \in PROTECTED_PATHS)
        => (resp = 403 /\ fs = pre)

\* C1 witness: a protected directory, named by another spelling of its
\* path, was refused.
C1_Witness ==
    /\ DeletedExisting
    /\ DeleteTarget \in PROTECTED_PATHS
    /\ req.path # Unparse(DeleteTarget)
    /\ resp = 403

\* C2 as stated: a single-item delete of an existing entry that is not
\* protected and not inside the trash leaves the entry under the Trash
\* Directory and no longer at its original location.
C2_DeleteMovesToTrash ==
    (DeletedExisting /\ DeleteTarget \notin PROTECTED_PATHS /\ ~UnderTrash(DeleteTarget))
        => /\ DeleteTarget \notin DOMAIN fs
           /\ \E q \in DOMAIN fs :
                UnderTrash(q) /\ TreeAt(fs, q) = TreeAt(pre, DeleteTarget)

\* C3: a single-item delete of an entry inside the trash erases it and its
\* subtree, and nothing else; it exists nowhere afterwards.
C3_TrashDeleteErases ==
    (DeletedExisting /\ UnderTrash(DeleteTarget))
        => /\ resp = 303
           /\ DeleteTarget \notin DOMAIN fs
           /\ fs = Without(pre, Subtree(pre, DeleteTarget))

\* C3 witness: the directory d, trashed by an earlier delete, was erased
\* with its content by a second delete.
C3_Witness ==
    /\ DeletedExisting
    /\ UnderTrash(DeleteTarget)
    /\ pre[DeleteTarget] = DirNode(16)
    /\ Children(pre, DeleteTarget) # {}
    /\ \A q \in DOMAIN fs : fs[q] # DirNode(16)

\* The last request was a delete that moves entries into the trash: a
\* single-item or batch delete that named nothing inside the trash.
MovedIntoTrash ==
    \/ DeletedExisting /\ DeleteTarget \notin PROTECTED_PATHS /\ ~UnderTrash(DeleteTarget)
    \/ /\ req.op = "batch_delete"
       /\ LET parent_dir == resolve(pre, PathParts(unquote(req.path)))
          IN  /\ parent_dir # NONE
              /\ \A i \in DOMAIN Split(req.names, ",") :
                    LET r == resolve(pre, JoinPath(parent_dir, Split(req.names, ",")[i]))
                    IN  r # NONE /\ r # TRASH_DIR /\ ~UnderTrash(r)

\* C4 as stated: a move into the trash leaves every entry the trash
\* already held as it was: same node, same subtree.
C4_TrashNeverOverwritten ==
    MovedIntoTrash
        => \A c \in Children(pre, TRASH_DIR) :
              c \in DOMAIN fs /\ TreeAt(fs, c) = TreeAt(pre, c)

\* The name a colliding entry is to get: <stem>_<YYYYMMDDHHMMSS><ext>.
StampedName(p, t) == PathStem(p) \o <<"_">> \o Strftime(t) \o PathSuffix(p)

\* C5: of two entries with one base name moved into the trash one after
\* the other, the first, finding its name free, is stored under it; the
\* second, finding the name taken (and no directory under its stamped
\* name), is stored as <stem>_<YYYYMMDDHHMMSS><ext> and leaves the first
\* as it was.
C5_SecondIsRenamed ==
    (DeletedExisting /\ resp = 303 /\ ~UnderTrash(DeleteTarget))
        => LET plain == Append(TRASH_DIR, PathName(DeleteTarget))
               stamped == Append(TRASH_DIR, StampedName(DeleteTarget, req.at))
           IN  /\ plain \notin DOMAIN pre
                    => TreeAt(fs, plain) = TreeAt(pre, DeleteTarget)
               /\ (plain \in DOMAIN pre /\ ~IsDirAt(pre, stamped))
                    => /\ TreeAt(fs, plain) = TreeAt(pre, plain)
                       /\ TreeAt(fs, stamped) = TreeAt(pre, DeleteTarget)

\* C5 witness: b.txt of /h/e was trashed after b.txt of /h: the trash
\* holds the first as b.txt and the second under the stamped name.
C5_Witness ==
    /\ DeletedExisting
    /\ resp = 303
    /\ DeleteTarget = <<N_home, ItemName.e, ItemName.b_txt>>
    /\ Append(TRASH_DIR, ItemName.b_txt) \in DOMAIN fs
    /\ fs[Append(TRASH_DIR, ItemName.b_txt)] = FileNode(5)
    /\ Append(TRASH_DIR, <<"b", "_">> \o Strftime(req.at) \o <<".", "t", "x", "t">>) \in DOMAIN fs
    /\ fs[Append(TRASH_DIR, <<"b", "_">> \o Strftime(req.at) \o <<".", "t", "x", "t">>)] = FileNode(2)

\* What the last request, a batch delete, resolved each of its names to.
BatchNames == Split(req.names, ",")
BatchTarget(i) ==
    resolve(pre, JoinPath(resolve(pre, PathParts(unquote(req.path))), BatchNames[i]))

\* C6 as stated: a batch delete of two names, one resolving to a member of
\* the Protected Set and one to an existing unprotected entry outside the
\* trash, in either order, leaves the protected entry as it was, moves the
\* other into the trash, and is answered with success.
C6_BatchSkipsProtected ==
    (req.op = "batch_delete" /\ Len(BatchNames) = 2)
        => \A i, j \in {1, 2} :
              (/\ i # j
               /\ BatchTarget(i) \in PROTECTED_PATHS \cap DOMAIN pre
               /\ BatchTarget(j) \in DOMAIN pre \ PROTECTED_PATHS
               /\ ~UnderTrash(BatchTarget(j)))
                  => /\ resp = 200
                     /\ BatchTarget(i) \in DOMAIN fs
                     /\ fs[BatchTarget(i)] = pre[BatchTarget(i)]
                     /\ BatchTarget(j) \notin DOMAIN fs
                     /\ \E q \in DOMAIN fs :
                          UnderTrash(q) /\ TreeAt(fs, q) = TreeAt(pre, BatchTarget(j))

\* C7 as stated: a batch request or emptyTrash is answered with success
\* however many items failed, and a batch delete reaches every name of its
\* list whatever became of the names before it.
C7_BatchBestEffort ==
    (req.op \in {"batch_delete", "batch_copy", "batch_move", "empty_trash"})
        => /\ resp = 200
           /\ req.op = "batch_delete"
                => (Len(items) = Len(BatchNames) /\ Last(items).outcome # "Raised")

\* C8 as stated: emptyTrash on a trash whose entries are all unprotected
\* leaves the Trash Directory existing and empty, and changes nothing when
\* the trash is empty already.
C8_EmptyTrashEmpties ==
    (/\ req.op = "empty_trash"
     /\ \A c \in Children(pre, TRASH_DIR) : resolve(pre, c) \notin PROTECTED_PATHS)
        => /\ resp = 200
           /\ IsDirAt(fs, TRASH_DIR)
           /\ Children(fs, TRASH_DIR) = {}
           /\ (IsDirAt(pre, TRASH_DIR) /\ Children(pre, TRASH_DIR) = {}) => fs = pre

\* The path the last request, a create or a rename, was to give a new entry.
NewEntryPath ==
    JoinPath(PathParts(unquote(req.path)), IF req.op = "rename" THEN req.dest ELSE req.names)

\* C9 as stated: create-folder, create-file and rename to a name that
\* already exists are answered 400 and change nothing.
C9_NoOverwriteOnCreateRename ==
    (/\ req.op \in {"create_folder", "create_file", "rename"}
     /\ LStat(pre, NewEntryPath) # NONE)
        => (resp = 400 /\ fs = pre)

\* C10 as stated: every member of the Protected Set is, after any sequence
\* of requests, still at its canonical path as it was at the start.
C10_ProtectedNeverLost ==
    \A m \in PROTECTED_PATHS : m \in DOMAIN fs /\ fs[m] = InitFS[m]

\* The entry pre held at p is still there after the last request: at p, or
\* at a path inside the trash.
Kept(p) ==
    \/ p \in DOMAIN fs /\ fs[p] = pre[p]
    \/ \E q \in DOMAIN fs : UnderTrash(q) /\ fs[q] = pre[p]

\* C11 as stated: a delete, a batch delete or emptyTrash erases only
\* entries that lay inside the Trash Directory; every entry outside it is
\* afterwards where it was or inside the trash.
C11_ErasedOnlyInTrash ==
    (req.op \in {"delete", "batch_delete", "empty_trash"})
        => \A p \in DOMAIN pre : (p # ROOT /\ ~UnderTrash(p) /\ p # TRASH_DIR) => Kept(p)

\* The paths inside the trash that f holds.
TrashPaths(f) == {q \in DOMAIN f : UnderTrash(q)}

\* The last request was a single-item delete of an existing, unprotected
\* file outside the trash.
DeletedOutsideFile ==
    /\ DeletedExisting
    /\ pre[DeleteTarget].kind = "file"
    /\ DeleteTarget \notin PROTECTED_PATHS
    /\ ~UnderTrash(DeleteTarget)

\* C12 as stated: of two single-item deletes of one existing, unprotected
\* file outside the trash, the one served first succeeds and puts the file
\* into the trash exactly once without loss of another trash entry, and
\* the other, served after it, is answered 404 and changes nothing (in a
\* batch delete it is skipped).  The handlers are coroutines that never
\* await, so the server runs each of them to its end before the next.
C12_ConcurrentDeletes ==
    DeletedOutsideFile
        => /\ resp = 303
           /\ DeleteTarget \notin DOMAIN fs
           /\ \E q \in TrashPaths(fs) \ TrashPaths(pre) :
                 /\ fs[q] = pre[DeleteTarget]
                 /\ TrashPaths(fs) \ TrashPaths(pre) = {q}
           /\ \A c \in TrashPaths(pre) : c \in DOMAIN fs /\ fs[c] = pre[c]
           /\ delete_file(fs, req.path, now) = {Timed(404, fs, now)}
           /\ BatchDeleteTarget(fs, DeleteTarget, now) = {Item(fs, "Skipped", now)}

\* The directory the last request, a batch delete, resolved its path to,
\* and the filesystem its loop had made when it reached the i-th name.
BatchParent == resolve(pre, PathParts(unquote(req.path)))
BatchReached(i) == IF i = 1 THEN pre ELSE items[i - 1].fs

\* C13 as stated: a batch delete gives every name of its list, in order,
\* exactly one of the four outcomes, the one its state when reached
\* determines: Skipped (missing or protected, nothing changes),
\* ErasedPermanently (it was inside the trash), MovedToTrash (it was
\* elsewhere and is in the trash afterwards), or Failed.
C13_BatchItemOutcomes ==
    (req.op = "batch_delete" /\ BatchParent # NONE)
        => LET outs == [i \in DOMAIN items |-> items[i].outcome]
           IN  /\ Len(outs) = Len(BatchNames)
               /\ fs = BatchReached(Len(BatchNames) + 1)
               /\ \A i \in DOMAIN outs :
                     LET g == BatchReached(i)
                         g2 == BatchReached(i + 1)
                         target == JoinPath(BatchParent, BatchNames[i])
                         r == resolve(g, target)
                     IN  /\ outs[i] \in {"Skipped", "ErasedPermanently",
                                         "MovedToTrash", "Failed"}
                         /\ outs[i] = "Skipped"
                               <=> (~exists(g, target) \/ r \in PROTECTED_PATHS)
                         /\ outs[i] = "Skipped" => g2 = g
                         /\ outs[i] = "ErasedPermanently"
                               => (UnderTrash(r) /\ r \notin DOMAIN g2)
                         /\ outs[i] = "MovedToTrash"
                               => /\ ~UnderTrash(r)
                                  /\ r \notin DOMAIN g2
                                  /\ \E q \in TrashPaths(g2) : TreeAt(g2, q) = TreeAt(g, r)

\* The last request was a single-item delete of an existing, unprotected
\* entry outside the trash.
DeletedOutside ==
    /\ DeletedExisting
    /\ DeleteTarget \notin PROTECTED_PATHS
    /\ DeleteTarget # TRASH_DIR
    /\ ~UnderTrash(DeleteTarget)

\* C14 as stated: when the move into the trash of a single-item delete
\* fails, by returning false or by raising, the request is answered 400.
C14_FailedMoveIs400 ==
    (/\ DeletedOutside
     /\ \E m \in move_to_trash(pre, DeleteTarget, req.at) :
            m.fs = fs /\ (~m.ok \/ ~m.ret))
        => resp = 400

\* C15 as stated: a single-item delete of a path that resolves to no
\* existing entry is answered 404 and changes nothing.
C15_MissingIs404 ==
    (req.op = "delete" /\ DeleteTarget # NONE /\ DeleteTarget \notin DOMAIN pre)
        => (resp = 404 /\ fs = pre)

\* C16 as stated: the Trash Directory is made on demand: a single-item
\* delete of an existing, unprotected entry outside the trash ends with
\* the Trash Directory existing and holding the entry, also when the
\* directory was missing; emptyTrash ends with it existing; and
\* ensure_trash_dir changes nothing when it exists.
C16_TrashMadeOnDemand ==
    /\ DeletedOutside
          => /\ IsDirAt(fs, TRASH_DIR)
             /\ \E q \in TrashPaths(fs) : TreeAt(fs, q) = TreeAt(pre, DeleteTarget)
    /\ req.op = "empty_trash" => IsDirAt(fs, TRASH_DIR)
    /\ IsDirAt(fs, TRASH_DIR) => ensure_trash_dir(fs) = Ok(fs)

\* C17 as stated: a batch delete in the directory D leaves D, and every
\* child of D its list does not name, at its original location.
C17_BatchDeleteFrame ==
    (req.op = "batch_delete" /\ BatchParent # NONE /\ IsDirAt(pre, BatchParent))
        => /\ BatchParent \in DOMAIN fs
           /\ fs[BatchParent] = pre[BatchParent]
           /\ \A c \in Children(pre, BatchParent) :
                 (\A i \in DOMAIN BatchNames : BatchNames[i] # Last(c))
                    => (c \in DOMAIN fs /\ fs[c] = pre[c])

\* The paths of f outside the Trash Directory.
OutsideTrash(f) == {p \in DOMAIN f : p # TRASH_DIR /\ ~UnderTrash(p)}

\* C18: emptyTrash leaves every entry outside the Trash Directory as it
\* was, adds none, and leaves the Trash Directory existing, whatever the
\* trash holds.
C18_EmptyTrashFrame ==
    (req.op = "empty_trash")
        => /\ OutsideTrash(fs) = OutsideTrash(pre)
           /\ \A p \in OutsideTrash(pre) : fs[p] = pre[p]
           /\ IsDirAt(fs, TRASH_DIR)
           /\ TrashPaths(fs) \subseteq TrashPaths(pre)

\* C18 witness: emptyTrash ran on a trash that held a file and the symlink
\* l to the directory d outside it; the file is gone, d and its file are
\* as they were.
C18_Witness ==
    /\ req.op = "empty_trash"
    /\ Append(TRASH_DIR, ItemName.l) \in DOMAIN pre
    /\ pre[Append(TRASH_DIR, ItemName.l)] = LinkNode(<<N_home, ItemName.d>>)
    /\ Append(TRASH_DIR, ItemName.a_txt) \in DOMAIN pre
    /\ Append(TRASH_DIR, ItemName.a_txt) \notin DOMAIN fs
    /\ fs[<<N_home, ItemName.d>>] = DirNode(16)
    /\ fs[<<N_home, ItemName.d, ItemName.a_txt>>] = FileNode(1)

====
